---- MODULE Spec2Model ----
(***************************************************************************)
(* A model of the pAION ledger (PaionTokenService), the affiliate          *)
(* subscription purchase (AffiliateService.createSubscription) and the     *)
(* governance service (GovernanceService) of the aionet-api backend.       *)
(*                                                                         *)
(* The services are stateless request handlers over a shared row store;    *)
(* every `await` on the store is a suspension point, and the code between  *)
(* two awaits of one call runs without interruption (one event loop).      *)
(* Each in-flight call is a record of `calls` with a program counter; one  *)
(* action is one stretch of a handler between two suspension points.       *)
(*                                                                         *)
(* The stored procedures update_paion_balance, transfer_paion_tokens,      *)
(* lock_paion_tokens and unlock_paion_tokens live in the database and are  *)
(* not part of the sources; they are modelled from the specification: one  *)
(* call is one atomic store transaction that performs the balance          *)
(* mutation and appends the transaction record(s).  The sufficiency check  *)
(* of a debit or a transfer is the one the service makes itself            *)
(* (paion-token-service.js lines 135 and 177); lock and unlock are passed  *)
(* through by the service unchecked, so their checks are the procedures'.  *)
(***************************************************************************)
EXTENDS Integers, Sequences, FiniteSets, TLC

VARIABLES
  balances,    \* table paion_balances: account -> row
  txlog,       \* table paion_transactions: sequence of records, oldest first
  subs,        \* table affiliate_subscriptions: set of records
  cache,       \* PaionTokenService.cache, the balance_<address> keys
  proposals,   \* table governance_proposals: id -> row
  votes,       \* table governance_votes: set of records
  tiers,       \* table user_nft_tiers: account -> tier
  gcache,      \* GovernanceService.cache, the proposal_<id> keys
  calls,       \* the calls started so far: index -> call record
  started,     \* number of calls started
  now,         \* the clock, in minutes
  bal0,        \* history: the balances table of the initial state
  hcache,      \* PaionTokenService.cache, the transactions_<address>_<options> keys
  scache,      \* PaionTokenService.cache, the key paion_stats
  requests,    \* the Map of the payment routes' rate limiter: key -> counter
  response,    \* what the rate limiter did with the last request
  admitted     \* history: per key, the times of the requests admitted lately

vars == <<balances, txlog, subs, cache, proposals, votes, tiers, gcache,
          calls, started, now, bal0, hcache, scache, requests, response,
          admitted>>

ledgerVars == <<balances, txlog, subs, cache, hcache, scache>>
rateVars == <<requests, response, admitted>>
govVars == <<proposals, votes, tiers, gcache>>

(***************************************************************************)
(* Bounds of the model.                                                    *)
(***************************************************************************)
MaxCalls == 2
MaxTime == 2
MaxProposals == 1
MaxLog == 2
RateStep == 8
RateHorizon == 16
MaxWait == 3

Accounts == {"a1", "a2"}
Amounts == {50, 100}
CallIds == 1..MaxCalls

(***************************************************************************)
(* Program constants.                                                      *)
(***************************************************************************)
CACHE_TTL_balance == 2
CACHE_TTL_transactions == 5
CACHE_TTL_stats == 10
NoTTL == -1

(***************************************************************************)
(* Rows of paion_balances.  An account without a row reads as NoRow.       *)
(***************************************************************************)
Row(b, l, e, s) ==
  [exists |-> TRUE, balance |-> b, locked_amount |-> l,
   total_earned |-> e, total_spent |-> s]

NoRow ==
  [exists |-> FALSE, balance |-> 0, locked_amount |-> 0,
   total_earned |-> 0, total_spent |-> 0]

\* What a balance query returns to the service: the selected columns.
Snapshot(row) ==
  [found |-> row.exists, balance |-> row.balance,
   locked_amount |-> row.locked_amount,
   total_earned |-> row.total_earned, total_spent |-> row.total_spent]

defaultBalance ==
  [found |-> FALSE, balance |-> 0, locked_amount |-> 0,
   total_earned |-> 0, total_spent |-> 0]

NoEntry == [present |-> FALSE, data |-> defaultBalance, timestamp |-> 0, ttl |-> 0]

Tx(user, type, amount, ref) ==
  [user_address |-> user, type |-> type, amount |-> amount, ref |-> ref]

(***************************************************************************)
(* Rows of governance_proposals, and a proposal as getProposal returns it  *)
(* (the row with the computed field is_active).                            *)
(***************************************************************************)
ProposalIds == 1..MaxProposals

Proposal(creator, status, start, end, options) ==
  [exists |-> TRUE, creator_address |-> creator, status |-> status,
   start_date |-> start, end_date |-> end, options |-> options]

NoProposal ==
  [exists |-> FALSE, creator_address |-> "", status |-> "",
   start_date |-> 0, end_date |-> 0, options |-> <<>>]

NoProposalData ==
  [status |-> "", end_date |-> 0, options |-> <<>>, is_active |-> FALSE,
   vote_statistics |-> <<>>, total_votes |-> 0, total_voting_power |-> 0]

NoGEntry == [present |-> FALSE, data |-> NoProposalData, timestamp |-> 0, ttl |-> 0]

(***************************************************************************)
(* PaionTokenService cache management.                                     *)
(***************************************************************************)
\* setCachedData(key, data, ttl): ttl is NoTTL when the argument is omitted
\* (JavaScript's undefined).
setCachedData(ch, addr, data, ttl) ==
  [ch EXCEPT ![addr] =
     [present |-> TRUE, data |-> data, timestamp |-> now, ttl |-> ttl]]

\* Date.now() - cached.timestamp > cached.ttl; a comparison with undefined
\* is false in JavaScript.
Expired(e) == e.ttl # NoTTL /\ now - e.timestamp > e.ttl

\* getCachedData(key) returns the data of a live entry, null otherwise
CacheHit(ch, addr) == ch[addr].present /\ ~Expired(ch[addr])

\* ... and deletes an entry it finds expired.
getCachedData(ch, addr) ==
  IF ch[addr].present /\ Expired(ch[addr])
    THEN [ch EXCEPT ![addr] = NoEntry]
    ELSE ch

cacheDelete(ch, addr) == [ch EXCEPT ![addr] = NoEntry]

(***************************************************************************)
(* The stored procedures (database side), each one atomic transaction.     *)
(***************************************************************************)
\* update_paion_balance(user_addr, amount_change, trans_type, ...): applies
\* the signed change to the balance, the amount to the lifetime counter of
\* the transaction type, creating the row on first use.
update_paion_balance(tbl, addr, change, type) ==
  LET r == tbl[addr]
      amt == IF change < 0 THEN -change ELSE change
  IN [tbl EXCEPT ![addr] =
        Row(r.balance + change, r.locked_amount,
            IF type = "earned" THEN r.total_earned + amt ELSE r.total_earned,
            IF type = "spent" THEN r.total_spent + amt ELSE r.total_spent)]

\* transfer_paion_tokens(from_addr, to_addr, transfer_amount, ...): debit and
\* credit in one transaction.
transfer_paion_tokens(tbl, from, to, amt) ==
  LET debited == [tbl EXCEPT ![from] =
                    Row(tbl[from].balance - amt, tbl[from].locked_amount,
                        tbl[from].total_earned, tbl[from].total_spent)]
  IN [debited EXCEPT ![to] =
        Row(debited[to].balance + amt, debited[to].locked_amount,
            debited[to].total_earned, debited[to].total_spent)]

\* lock_paion_tokens(user_addr, lock_amount, ...): moves the amount from
\* balance to locked_amount; rejected when the balance is insufficient.
lock_ok(tbl, addr, amt) == tbl[addr].exists /\ tbl[addr].balance >= amt

lock_paion_tokens(tbl, addr, amt) ==
  [tbl EXCEPT ![addr] =
     Row(tbl[addr].balance - amt, tbl[addr].locked_amount + amt,
         tbl[addr].total_earned, tbl[addr].total_spent)]

\* unlock_paion_tokens(user_addr, unlock_amount, ...): the reverse move;
\* rejected when the locked amount is insufficient.
unlock_ok(tbl, addr, amt) == tbl[addr].exists /\ tbl[addr].locked_amount >= amt

unlock_paion_tokens(tbl, addr, amt) ==
  [tbl EXCEPT ![addr] =
     Row(tbl[addr].balance + amt, tbl[addr].locked_amount - amt,
         tbl[addr].total_earned, tbl[addr].total_spent)]

(***************************************************************************)
(* Values of a request body.  A JSON value is undefined (the field is      *)
(* missing), null, a number, or a string (a sequence of characters).       *)
(***************************************************************************)
Undefined == [kind |-> "undefined", num |-> 0, str |-> <<>>]
Null == [kind |-> "null", num |-> 0, str |-> <<>>]
Num(n) == [kind |-> "number", num |-> n, str |-> <<>>]
Str(s) == [kind |-> "string", num |-> 0, str |-> s]

\* a date field of the body: missing, or a string that new Date() turns
\* into an invalid date, or into the minute t
NoDate == [kind |-> "missing", t |-> 0]
BadDate == [kind |-> "invalid", t |-> 0]
DateAt(t) == [kind |-> "date", t |-> t]

(***************************************************************************)
(* getTransactionHistory: its options, its result, its cache entries.      *)
(* transactionType "" is the option left out (undefined); sourceType       *)
(* filters in the same way on another column and is left out here.         *)
(***************************************************************************)
Limits == {1, 2}
Offsets == {0, 1}
TransactionTypes == {"", "earned"}

HistoryOptions ==
  [limit : Limits, offset : Offsets, transactionType : TransactionTypes]

NoOptions == [limit |-> 0, offset |-> 0, transactionType |-> ""]

NoHistory == [transactions |-> <<>>, totalCount |-> 0, hasMore |-> FALSE]

HistoryKeys == Accounts \X HistoryOptions

NoHEntry == [present |-> FALSE, data |-> NoHistory, timestamp |-> 0, ttl |-> 0]

(***************************************************************************)
(* Token statistics.  averageBalance is a quotient; it is kept as the      *)
(* fraction num/den, and two fractions are the same number when their      *)
(* cross products are equal.                                               *)
(***************************************************************************)
Quotient(n, d) == [num |-> n, den |-> d]
Zero == Quotient(0, 1)
SameNumber(x, y) == x.num * y.den = y.num * x.den

NoStats ==
  [totalSupply |-> 0, circulatingSupply |-> 0, totalHolders |-> 0,
   totalSpent |-> 0, averageBalance |-> Zero]

NoSEntry == [present |-> FALSE, data |-> NoStats, timestamp |-> 0, ttl |-> 0]

(***************************************************************************)
(* Calls.  A call that was never started is idle; `res` is what the call   *)
(* returned ("" while it runs).                                            *)
(***************************************************************************)
IdleCall ==
  [op |-> "none", pc |-> "idle", addr |-> "", to |-> "", amount |-> 0,
   pid |-> 0, option |-> "", options |-> <<>>, snap |-> defaultBalance,
   psnap |-> NoProposalData, power |-> 0, res |-> "", ret |-> {}, at |-> 0,
   raw |-> Undefined, unlock_date |-> NoDate, optsGiven |-> TRUE,
   failed |-> FALSE, hopts |-> NoOptions, hist |-> NoHistory, prior |-> {},
   stats |-> NoStats]

NewCall(op, addr, to, amount) ==
  [IdleCall EXCEPT !.op = op, !.pc = "start", !.addr = addr, !.to = to,
                   !.amount = amount]

Begin(call) ==
  /\ started < MaxCalls
  /\ started' = started + 1
  /\ calls' = [calls EXCEPT ![started + 1] = call]

\* A finished call keeps its result; its locals are gone.
Finish(c, res) ==
  calls' = [calls EXCEPT ![c].pc = "done", ![c].res = res,
                         ![c].snap = defaultBalance,
                         ![c].psnap = NoProposalData, ![c].power = 0]

Goto(c, pc) == calls' = [calls EXCEPT ![c].pc = pc]

\* ... leaving the balance snapshot behind
GotoClear(c) == calls' = [calls EXCEPT ![c].pc = "clear", ![c].snap = defaultBalance]

At(c, ops, pc) == calls[c].op \in ops /\ calls[c].pc = pc

(***************************************************************************)
(* PaionTokenService.getUserBalance, as called by the balance endpoint     *)
(* (op "balance") and by spendTokens and transferTokens.                   *)
(***************************************************************************)
BalanceReaders == {"balance", "spend", "transfer"}

\* Line 135 of spendTokens, line 177 of transferTokens:
\* balance.balance < amount
Insufficient(snap, amount) == snap.balance < amount

\* Where the caller continues when getUserBalance has returned `snap`: the
\* balance endpoint answers with it; spendTokens (lines 134-140) and
\* transferTokens (lines 176-182) check it against the amount and either
\* return the insufficient-balance failure or go on to call the procedure.
AfterBalance(c, snap) ==
  calls' = [calls EXCEPT
              ![c].snap = snap,
              ![c].pc = IF calls[c].op = "balance" \/ Insufficient(snap, calls[c].amount)
                          THEN "done" ELSE "rpc",
              ![c].res = IF calls[c].op = "balance" THEN "ok"
                         ELSE IF Insufficient(snap, calls[c].amount)
                                THEN "insufficient" ELSE ""]

\* Lines 48-50: the cache lookup; a live entry is returned as it is.
getUserBalance_cache(c) ==
  /\ At(c, BalanceReaders, "start")
  /\ cache' = getCachedData(cache, calls[c].addr)
  /\ IF CacheHit(cache, calls[c].addr)
       THEN AfterBalance(c, cache[calls[c].addr].data)
       ELSE Goto(c, "read")
  /\ UNCHANGED <<balances, txlog, subs, govVars, started, now, bal0, hcache, scache, rateVars>>

\* Lines 54-58: the store query.  A store failure is thrown to the caller;
\* spendTokens and transferTokens turn it into a failure result.
getUserBalance_read(c, ok) ==
  /\ At(c, BalanceReaders, "read")
  /\ IF ok
       THEN calls' = [calls EXCEPT ![c].pc = "fill",
                                   ![c].snap = Snapshot(balances[calls[c].addr])]
       ELSE Finish(c, "error")
  /\ UNCHANGED <<ledgerVars, govVars, started, now, bal0, rateVars>>

\* Lines 60-86: the row, or the zero default when there is none, is cached
\* and returned; the default is cached without a ttl.
getUserBalance_fill(c) ==
  /\ At(c, BalanceReaders, "fill")
  /\ cache' = setCachedData(cache, calls[c].addr, calls[c].snap,
                            IF calls[c].snap.found THEN CACHE_TTL_balance ELSE NoTTL)
  /\ AfterBalance(c, calls[c].snap)
  /\ UNCHANGED <<balances, txlog, subs, govVars, started, now, bal0, hcache, scache, rateVars>>

(***************************************************************************)
(* PaionTokenService.addTokens                                             *)
(***************************************************************************)
\* Lines 100-113: the update_paion_balance call.
addTokens_rpc(c, ok) ==
  /\ At(c, {"add"}, "start")
  /\ IF ok
       THEN /\ balances' = update_paion_balance(balances, calls[c].addr,
                                                calls[c].amount, "earned")
            /\ txlog' = Append(txlog, Tx(calls[c].addr, "earned", calls[c].amount, c))
            /\ Goto(c, "clear")
       ELSE /\ Finish(c, "error")
            /\ UNCHANGED <<balances, txlog>>
  /\ UNCHANGED <<subs, cache, govVars, started, now, bal0, hcache, scache, rateVars>>

(***************************************************************************)
(* PaionTokenService.spendTokens                                           *)
(***************************************************************************)
\* Lines 142-155: the update_paion_balance call with the negated amount.
spendTokens_rpc(c, ok) ==
  /\ At(c, {"spend"}, "rpc")
  /\ IF ok
       THEN /\ balances' = update_paion_balance(balances, calls[c].addr,
                                                -calls[c].amount, "spent")
            /\ txlog' = Append(txlog, Tx(calls[c].addr, "spent", calls[c].amount, c))
            /\ GotoClear(c)
       ELSE /\ Finish(c, "error")
            /\ UNCHANGED <<balances, txlog>>
  /\ UNCHANGED <<subs, cache, govVars, started, now, bal0, hcache, scache, rateVars>>

(***************************************************************************)
(* PaionTokenService.transferTokens                                        *)
(***************************************************************************)
\* Mutant: the transfer made of two independent store calls, a debit and a
\* credit; when the store fails the credit, the debit stays.
transferTokens_rpc_split(c, ok) ==
  /\ At(c, {"transfer"}, "rpc")
  /\ balances' =
       IF ok THEN transfer_paion_tokens(balances, calls[c].addr, calls[c].to,
                                        calls[c].amount)
             ELSE update_paion_balance(balances, calls[c].addr,
                                       -calls[c].amount, "transfer_out")
  /\ txlog' =
       IF ok THEN txlog \o
                    << Tx(calls[c].addr, "transfer_out", calls[c].amount, c),
                       Tx(calls[c].to, "transfer_in", calls[c].amount, c) >>
             ELSE Append(txlog, Tx(calls[c].addr, "transfer_out", calls[c].amount, c))
  /\ IF ok THEN GotoClear(c) ELSE Finish(c, "error")
  /\ UNCHANGED <<subs, cache, govVars, started, now, bal0, hcache, scache, rateVars>>

\* Mutant: the sender's address passed for both parties.
transferTokens_rpc_self(c, ok) ==
  /\ At(c, {"transfer"}, "rpc")
  /\ IF ok
       THEN /\ balances' = transfer_paion_tokens(balances, calls[c].addr,
                                                 calls[c].addr, calls[c].amount)
            /\ txlog' = txlog \o
                 << Tx(calls[c].addr, "transfer_out", calls[c].amount, c),
                    Tx(calls[c].to, "transfer_in", calls[c].amount, c) >>
            /\ GotoClear(c)
       ELSE /\ Finish(c, "error")
            /\ UNCHANGED <<balances, txlog>>
  /\ UNCHANGED <<subs, cache, govVars, started, now, bal0, hcache, scache, rateVars>>

\* Lines 185-196: the transfer_paion_tokens call.
transferTokens_rpc(c, ok) ==
  /\ At(c, {"transfer"}, "rpc")
  /\ IF ok
       THEN /\ balances' = transfer_paion_tokens(balances, calls[c].addr,
                                                 calls[c].to, calls[c].amount)
            /\ txlog' = txlog \o
                 << Tx(calls[c].addr, "transfer_out", calls[c].amount, c),
                    Tx(calls[c].to, "transfer_in", calls[c].amount, c) >>
            /\ GotoClear(c)
       ELSE /\ Finish(c, "error")
            /\ UNCHANGED <<balances, txlog>>
  /\ UNCHANGED <<subs, cache, govVars, started, now, bal0, hcache, scache, rateVars>>

(***************************************************************************)
(* PaionTokenService.lockTokens and unlockTokens                           *)
(***************************************************************************)
\* Lines 312-323: the lock_paion_tokens call; a rejection by the procedure
\* comes back as an error like any other.
lockTokens_rpc(c, ok) ==
  /\ At(c, {"lock"}, "start")
  /\ IF ok /\ lock_ok(balances, calls[c].addr, calls[c].amount)
       THEN /\ balances' = lock_paion_tokens(balances, calls[c].addr, calls[c].amount)
            /\ txlog' = Append(txlog, Tx(calls[c].addr, "locked", calls[c].amount, c))
            /\ Goto(c, "clear")
       ELSE /\ Finish(c, IF ok THEN "insufficient" ELSE "error")
            /\ UNCHANGED <<balances, txlog>>
  /\ UNCHANGED <<subs, cache, govVars, started, now, bal0, hcache, scache, rateVars>>

\* Mutant: unlockTokens calling the lock procedure.
unlockTokens_rpc_lock(c, ok) ==
  /\ At(c, {"unlock"}, "start")
  /\ IF ok /\ lock_ok(balances, calls[c].addr, calls[c].amount)
       THEN /\ balances' = lock_paion_tokens(balances, calls[c].addr, calls[c].amount)
            /\ txlog' = Append(txlog, Tx(calls[c].addr, "unlocked", calls[c].amount, c))
            /\ Goto(c, "clear")
       ELSE /\ Finish(c, IF ok THEN "insufficient" ELSE "error")
            /\ UNCHANGED <<balances, txlog>>
  /\ UNCHANGED <<subs, cache, govVars, started, now, bal0, hcache, scache, rateVars>>

\* Lines 343-353: the unlock_paion_tokens call.
unlockTokens_rpc(c, ok) ==
  /\ At(c, {"unlock"}, "start")
  /\ IF ok /\ unlock_ok(balances, calls[c].addr, calls[c].amount)
       THEN /\ balances' = unlock_paion_tokens(balances, calls[c].addr, calls[c].amount)
            /\ txlog' = Append(txlog, Tx(calls[c].addr, "unlocked", calls[c].amount, c))
            /\ Goto(c, "clear")
       ELSE /\ Finish(c, IF ok THEN "insufficient" ELSE "error")
            /\ UNCHANGED <<balances, txlog>>
  /\ UNCHANGED <<subs, cache, govVars, started, now, bal0, hcache, scache, rateVars>>

\* "Clear cache" after a successful procedure call (lines 116, 158, 199-200,
\* 326, 356), then the success result.
clearCache(c) ==
  /\ At(c, {"add", "spend", "transfer", "lock", "unlock"}, "clear")
  /\ cache' = IF calls[c].op = "transfer"
                THEN cacheDelete(cacheDelete(cache, calls[c].addr), calls[c].to)
                ELSE cacheDelete(cache, calls[c].addr)
  /\ Finish(c, "ok")
  /\ UNCHANGED <<balances, txlog, subs, govVars, started, now, bal0, hcache, scache, rateVars>>

(***************************************************************************)
(* AffiliateService.getQuote and createSubscription                        *)
(***************************************************************************)
\* The pricing plans of getPricing: duration in days, price in pAION.
Plans ==
  { [duration |-> 30, price |-> 100], [duration |-> 90, price |-> 270],
    [duration |-> 180, price |-> 480], [duration |-> 365, price |-> 840] }

HasPlan(d) == \E p \in Plans : p.duration = d

getQuote(d) == CHOOSE p \in Plans : p.duration = d

\* .select('balance'): the only column the purchase reads; the columns it
\* did not select are undefined, which `|| 0` turns into 0.
SelectBalance(row) ==
  [defaultBalance EXCEPT !.found = row.exists, !.balance = row.balance]

\* Lines 154-165: the quote, then the balance query and the check.  The
\* duration of the call is kept in `amount`.
createSubscription_balance(c, ok) ==
  /\ At(c, {"subscribe"}, "start")
  /\ IF ~HasPlan(calls[c].amount)
       THEN Finish(c, "error")
       ELSE IF ~ok \/ ~balances[calls[c].addr].exists
                   \/ balances[calls[c].addr].balance < getQuote(calls[c].amount).price
              THEN Finish(c, "insufficient")
              ELSE calls' = [calls EXCEPT
                               ![c].pc = "insert",
                               ![c].snap = SelectBalance(balances[calls[c].addr])]
  /\ UNCHANGED <<ledgerVars, govVars, started, now, bal0, rateVars>>

\* Lines 188-207: the subscription record is inserted.
createSubscription_insert(c, ok) ==
  /\ At(c, {"subscribe"}, "insert")
  /\ IF ok
       THEN /\ subs' = subs \cup
                 {[id |-> c, user_address |-> calls[c].addr,
                   price_paid |-> getQuote(calls[c].amount).price]}
            /\ Goto(c, "deduct")
       ELSE /\ Finish(c, "error")
            /\ UNCHANGED subs
  /\ UNCHANGED <<balances, txlog, cache, govVars, started, now, bal0, hcache, scache, rateVars>>

\* The row the update of lines 210-217 writes: the balance read earlier
\* less the price, and total_spent computed from the unselected column.
deducted(row, snap, price) ==
  Row(snap.balance - price, row.locked_amount, row.total_earned,
      snap.total_spent + price)

\* Lines 210-219: the balance update.
createSubscription_deduct(c, ok) ==
  /\ At(c, {"subscribe"}, "deduct")
  /\ IF ok
       THEN /\ balances' =
                 IF balances[calls[c].addr].exists
                   THEN [balances EXCEPT ![calls[c].addr] =
                           deducted(@, calls[c].snap, getQuote(calls[c].amount).price)]
                   ELSE balances
            /\ Goto(c, "record")
       ELSE /\ Goto(c, "rollback")
            /\ UNCHANGED balances
  /\ UNCHANGED <<txlog, subs, cache, govVars, started, now, bal0, hcache, scache, rateVars>>

\* Lines 220-225: the subscription is deleted again (the result of the
\* delete is not looked at) and the deduction error is thrown.
createSubscription_rollback(c, ok) ==
  /\ At(c, {"subscribe"}, "rollback")
  /\ subs' = IF ok THEN {s \in subs : s.id # c} ELSE subs
  /\ Finish(c, "error")
  /\ UNCHANGED <<balances, txlog, cache, govVars, started, now, bal0, hcache, scache, rateVars>>

\* Lines 229-245: the transaction record is inserted (the result of the
\* insert is not looked at), the service's own subscription cache is
\* cleared and the subscription returned.
createSubscription_record(c, ok) ==
  /\ At(c, {"subscribe"}, "record")
  /\ txlog' = IF ok
                THEN Append(txlog, Tx(calls[c].addr, "spent",
                                      getQuote(calls[c].amount).price, c))
                ELSE txlog
  /\ Finish(c, "ok")
  /\ UNCHANGED <<balances, subs, cache, govVars, started, now, bal0, hcache, scache, rateVars>>

(***************************************************************************)
(* GovernanceService: cache management, voting power                       *)
(***************************************************************************)
CACHE_TTL_proposals == 2
MIN_VOTING_POWER == 3
\* 7 days, in minutes
VOTING_DURATION == 10080

\* getCachedData(key): the data of an entry younger than its ttl
GCacheHit(ch, id) == ch[id].present /\ now - ch[id].timestamp < ch[id].ttl

gSetCachedData(ch, id, data) ==
  [ch EXCEPT ![id] = [present |-> TRUE, data |-> data, timestamp |-> now,
                      ttl |-> CACHE_TTL_proposals]]

\* VOTING_POWER[tier] || 1
VOTING_POWER(tier) ==
  CASE tier = "NOMAD" -> 1
    [] tier = "PRO" -> 3
    [] tier = "ROYAL" -> 5
    [] OTHER -> 1

\* getUserVotingPower: the tier row of the user, NOMAD when there is none;
\* a failure of the query is caught and answered with 1.
getUserVotingPower(addr, ok) ==
  IF ok
    THEN VOTING_POWER(IF tiers[addr] = "none" THEN "NOMAD" ELSE tiers[addr])
    ELSE 1

(***************************************************************************)
(* GovernanceService.createProposal                                        *)
(***************************************************************************)
DefaultOptions == <<"Yes", "No">>

FreeIds == {i \in ProposalIds : ~proposals[i].exists}

\* Mutant: the voting power looked up and not checked.
createProposal_power_unchecked(c, ok) ==
  /\ At(c, {"propose"}, "start")
  /\ calls' = [calls EXCEPT ![c].pc = "insert",
                            ![c].power = getUserVotingPower(calls[c].addr, ok)]
  /\ UNCHANGED <<ledgerVars, govVars, started, now, bal0, rateVars>>

\* Lines 83-86: the creator's voting power is looked up and checked.
createProposal_power(c, ok) ==
  /\ At(c, {"propose"}, "start")
  /\ IF getUserVotingPower(calls[c].addr, ok) < MIN_VOTING_POWER
       THEN Finish(c, "power")
       ELSE calls' = [calls EXCEPT ![c].pc = "insert",
                                   ![c].power = getUserVotingPower(calls[c].addr, ok)]
  /\ UNCHANGED <<ledgerVars, govVars, started, now, bal0, rateVars>>

\* Lines 93-121: the proposal is inserted, active from now for
\* VOTING_DURATION, with the options of the request or, when the request
\* has none (proposalData.options is undefined), the default ones; the
\* cache keys deleted afterwards are keys nothing ever sets.
createProposal_insert(c, ok) ==
  /\ At(c, {"propose"}, "insert")
  /\ FreeIds # {}
  /\ IF ok
       THEN LET id == CHOOSE i \in FreeIds : \A j \in FreeIds : i <= j
            IN /\ proposals' = [proposals EXCEPT ![id] =
                     Proposal(calls[c].addr, "active", now,
                              now + VOTING_DURATION,
                              IF calls[c].optsGiven THEN calls[c].options
                                                    ELSE DefaultOptions)]
               /\ calls' = [calls EXCEPT ![c].pc = "done", ![c].res = "ok",
                                         ![c].pid = id, ![c].power = 0]
       ELSE /\ Finish(c, "error")
            /\ UNCHANGED proposals
  /\ UNCHANGED <<ledgerVars, votes, tiers, gcache, started, now, bal0, rateVars>>

(***************************************************************************)
(* GovernanceService.getProposal, as called by castVote                    *)
(***************************************************************************)
\* The columns of the row the query returns.
ProposalData(row) ==
  [NoProposalData EXCEPT !.status = row.status, !.end_date = row.end_date,
                         !.options = row.options]

\* Lines 216-222: voteStats, an object with a key for every option.
Range(seq) == {seq[i] : i \in 1..Len(seq)}

voteStats0(options) == [o \in Range(options) |-> [count |-> 0, voting_power |-> 0]]

\* Mutant: the votes counted, their voting power left out.
RECURSIVE countVotes_countOnly(_, _)
countVotes_countOnly(stats, vs) ==
  IF vs = {} THEN stats
  ELSE LET v == CHOOSE x \in vs : TRUE
       IN countVotes_countOnly(
            IF v.option \in DOMAIN stats
              THEN [stats EXCEPT ![v.option] =
                      [count |-> @.count + 1, voting_power |-> @.voting_power]]
              ELSE stats,
            vs \ {v})

\* Lines 224-229: every vote whose option has a key is added to it.
RECURSIVE countVotes(_, _)
countVotes(stats, vs) ==
  IF vs = {} THEN stats
  ELSE LET v == CHOOSE x \in vs : TRUE
       IN countVotes(
            IF v.option \in DOMAIN stats
              THEN [stats EXCEPT ![v.option] =
                      [count |-> @.count + 1,
                       voting_power |-> @.voting_power + v.voting_power]]
              ELSE stats,
            vs \ {v})

\* Line 235: proposal.votes.reduce((sum, vote) => sum + vote.voting_power, 0)
RECURSIVE sumVotingPower(_)
sumVotingPower(vs) ==
  IF vs = {} THEN 0
  ELSE LET v == CHOOSE x \in vs : TRUE
       IN v.voting_power + sumVotingPower(vs \ {v})

\* the votes the query embeds in the proposal: votes:governance_votes(*)
VotesOfProposal(pid) == {v \in votes : v.proposal_id = pid}

\* Lines 215-235: the vote statistics of the rows read.
voteStatistics(data, vs) ==
  [data EXCEPT !.vote_statistics = countVotes(voteStats0(data.options), vs),
               !.total_votes = Cardinality(vs),
               !.total_voting_power = sumVotingPower(vs)]

\* Line 236: is_active, computed when the row is processed.
is_active(p) == p.status = "active" /\ p.end_date > now

processedProposal(p) == [p EXCEPT !.is_active = is_active(p)]

\* Lines 257-259 of castVote: the proposal must be active.
castVote_active(c, data) ==
  IF ~data.is_active
    THEN calls' = [calls EXCEPT ![c].pc = "done", ![c].res = "inactive",
                                ![c].psnap = data]
    ELSE calls' = [calls EXCEPT ![c].pc = "existing", ![c].psnap = data]

\* Where the caller continues when getProposal has returned `data`: the
\* proposal endpoint (op "get") answers with it, castVote checks it.
AfterProposal(c, data) ==
  IF calls[c].op = "get"
    THEN calls' = [calls EXCEPT ![c].pc = "done", ![c].res = "ok", ![c].psnap = data]
    ELSE castVote_active(c, data)

\* Lines 196-198: the cache lookup; a cached proposal is returned as it is.
getProposal_cache(c) ==
  /\ At(c, {"vote", "get"}, "start")
  /\ IF GCacheHit(gcache, calls[c].pid)
       THEN AfterProposal(c, gcache[calls[c].pid].data)
       ELSE Goto(c, "read")
  /\ UNCHANGED <<ledgerVars, govVars, started, now, bal0, rateVars>>

\* Lines 202-213: the store query; no such proposal, or a store failure,
\* is thrown.
getProposal_read(c, ok) ==
  /\ At(c, {"vote", "get"}, "read")
  /\ IF ok /\ proposals[calls[c].pid].exists
       THEN calls' = [calls EXCEPT
                        ![c].pc = "fill",
                        ![c].psnap = voteStatistics(
                                       ProposalData(proposals[calls[c].pid]),
                                       VotesOfProposal(calls[c].pid))]
       ELSE Finish(c, "error")
  /\ UNCHANGED <<ledgerVars, govVars, started, now, bal0, rateVars>>

\* Lines 215-241: the row is processed and cached, then castVote's check.
getProposal_fill(c) ==
  /\ At(c, {"vote", "get"}, "fill")
  /\ LET data == processedProposal(calls[c].psnap)
     IN /\ gcache' = gSetCachedData(gcache, calls[c].pid, data)
        /\ AfterProposal(c, data)
  /\ UNCHANGED <<ledgerVars, proposals, votes, tiers, started, now, bal0, rateVars>>

(***************************************************************************)
(* GovernanceService.castVote                                              *)
(***************************************************************************)
VotesOf(pid, voter) ==
  {v \in votes : v.proposal_id = pid /\ v.voter_address = voter}

InSeq(x, seq) == \E i \in 1..Len(seq) : seq[i] = x

\* .single() of lines 262-267 yields data only for exactly one row; an
\* error (a store failure, no row, several rows) leaves it null, and the
\* error is not looked at.  `failed` of a call records that one of its
\* store queries failed.
existingVote(pid, voter, ok) == ok /\ Cardinality(VotesOf(pid, voter)) = 1

\* Lines 262-276: the existing-vote query, then the option is validated.
castVote_existing(c, ok) ==
  /\ At(c, {"vote"}, "existing")
  /\ IF existingVote(calls[c].pid, calls[c].addr, ok)
       THEN Finish(c, "already")
       ELSE IF ~InSeq(calls[c].option, calls[c].psnap.options)
              THEN Finish(c, "invalid_option")
              ELSE calls' = [calls EXCEPT ![c].pc = "power", ![c].failed = ~ok]
  /\ UNCHANGED <<ledgerVars, govVars, started, now, bal0, rateVars>>

\* Line 279: the voter's voting power.
castVote_power(c, ok) ==
  /\ At(c, {"vote"}, "power")
  /\ calls' = [calls EXCEPT ![c].pc = "insert",
                            ![c].power = getUserVotingPower(calls[c].addr, ok),
                            ![c].failed = @ \/ ~ok]
  /\ UNCHANGED <<ledgerVars, govVars, started, now, bal0, rateVars>>

\* Lines 282-297: the vote is inserted.
castVote_insert(c, ok) ==
  /\ At(c, {"vote"}, "insert")
  /\ IF ok
       THEN /\ votes' = votes \cup
                 {[id |-> c, proposal_id |-> calls[c].pid,
                   voter_address |-> calls[c].addr, option |-> calls[c].option,
                   voting_power |-> calls[c].power, created_at |-> now]}
            /\ Goto(c, "clear")
       ELSE /\ Finish(c, "error")
            /\ UNCHANGED votes
  /\ UNCHANGED <<ledgerVars, proposals, tiers, gcache, started, now, bal0, rateVars>>

\* Lines 300-304: the proposal's cache entry is deleted, the vote returned.
castVote_clear(c) ==
  /\ At(c, {"vote"}, "clear")
  /\ gcache' = [gcache EXCEPT ![calls[c].pid] = NoGEntry]
  /\ Finish(c, "ok")
  /\ UNCHANGED <<ledgerVars, proposals, votes, tiers, started, now, bal0, rateVars>>

(***************************************************************************)
(* GovernanceService.closeExpiredProposals                                 *)
(***************************************************************************)
\* Mutant: the update without its status filter.
expired_anyStatus(row) == row.exists /\ row.end_date < now

\* .eq('status', 'active').lt('end_date', now)
expired(row) == row.exists /\ row.status = "active" /\ row.end_date < now

\* Mutant: the expired proposals selected and returned, not updated.
closeExpiredProposals_select(c, ok) ==
  /\ At(c, {"close"}, "start")
  /\ IF ok
       THEN calls' = [calls EXCEPT
                        ![c].pc = "clear", ![c].at = now,
                        ![c].ret = {i \in ProposalIds : expired(proposals[i])}]
       ELSE Finish(c, "error")
  /\ UNCHANGED <<ledgerVars, govVars, started, now, bal0, rateVars>>

\* Lines 424-433: one update statement completes the expired proposals and
\* returns them.
closeExpiredProposals_update(c, ok) ==
  /\ At(c, {"close"}, "start")
  /\ IF ok
       THEN /\ proposals' =
                 [i \in ProposalIds |->
                    IF expired(proposals[i])
                      THEN [proposals[i] EXCEPT !.status = "completed"]
                      ELSE proposals[i]]
            /\ calls' = [calls EXCEPT
                           ![c].pc = "clear", ![c].at = now,
                           ![c].ret = {i \in ProposalIds : expired(proposals[i])}]
       ELSE /\ Finish(c, "error")
            /\ UNCHANGED proposals
  /\ UNCHANGED <<ledgerVars, votes, tiers, gcache, started, now, bal0, rateVars>>

\* Lines 436-439: the whole cache is cleared, the closed proposals returned.
closeExpiredProposals_clear(c) ==
  /\ At(c, {"close"}, "clear")
  /\ gcache' = [i \in ProposalIds |-> NoGEntry]
  /\ Finish(c, "ok")
  /\ UNCHANGED <<ledgerVars, proposals, votes, tiers, started, now, bal0, rateVars>>

(***************************************************************************)
(* validateAmount (middleware/validation.js) and the validation the        *)
(* PaionController handlers make before they call the service.             *)
(***************************************************************************)
Digits == {"0", "1", "5"}

DigitVal(ch) == CASE ch = "1" -> 1 [] ch = "5" -> 5 [] OTHER -> 0

\* the longest prefix of s made of digits
RECURSIVE DigitPrefix(_)
DigitPrefix(s) ==
  IF s = <<>> \/ Head(s) \notin Digits THEN <<>>
  ELSE <<Head(s)>> \o DigitPrefix(Tail(s))

\* the number a sequence of digits denotes
RECURSIVE DigitsValue(_)
DigitsValue(d) ==
  IF d = <<>> THEN 0
  ELSE 10 * DigitsValue(SubSeq(d, 1, Len(d) - 1)) + DigitVal(d[Len(d)])

NaN == [nan |-> TRUE, val |-> 0]
Number(n) == [nan |-> FALSE, val |-> n]

\* parseFloat(v): a number is itself; a string is parsed as far as it is a
\* numeral (an optional sign and digits) and the rest is ignored; a string
\* that does not start with a numeral, undefined and null give NaN.
parseFloat(v) ==
  CASE v.kind = "number" -> Number(v.num)
    [] v.kind = "string" ->
         LET neg == v.str # <<>> /\ Head(v.str) = "-"
             body == IF neg THEN Tail(v.str) ELSE v.str
             d == DigitPrefix(body)
         IN IF d = <<>> THEN NaN
            ELSE Number(IF neg THEN -DigitsValue(d) ELSE DigitsValue(d))
    [] OTHER -> NaN

MAX_AMOUNT == 1000000

\* validateAmount(amount), lines 57-77
validateAmount(v) ==
  IF v.kind \in {"undefined", "null"}
    THEN [valid |-> FALSE, value |-> 0]
    ELSE LET numAmount == parseFloat(v)
         IN IF numAmount.nan \/ numAmount.val <= 0 \/ numAmount.val > MAX_AMOUNT
              THEN [valid |-> FALSE, value |-> 0]
              ELSE [valid |-> TRUE, value |-> numAmount.val]

\* !amount
Falsy(v) ==
  \/ v.kind \in {"undefined", "null"}
  \/ v.kind = "number" /\ v.num = 0
  \/ v.kind = "string" /\ v.str = <<>>

\* isNaN(unlockDate.getTime()) || unlockDate <= new Date()
InvalidUnlockDate(d) == d.kind = "invalid" \/ d.t <= now

Endpoints == {"add", "spend", "transfer", "lock", "unlock"}

\* The handlers of PaionController up to the service call: the required
\* fields, the amount, and for lockTokens the unlock date; a request that
\* passes enters the service with the parsed amount.
validateRequest(c) ==
  /\ At(c, Endpoints, "request")
  /\ IF Falsy(calls[c].raw) \/ (calls[c].op = "lock" /\ calls[c].unlock_date.kind = "missing")
       THEN Finish(c, "missing_fields")
       ELSE IF ~validateAmount(calls[c].raw).valid
              THEN Finish(c, "invalid_amount")
              ELSE IF calls[c].op = "lock" /\ InvalidUnlockDate(calls[c].unlock_date)
                     THEN Finish(c, "invalid_unlock_date")
                     ELSE calls' = [calls EXCEPT
                                      ![c].pc = "start",
                                      ![c].amount = validateAmount(calls[c].raw).value]
  /\ UNCHANGED <<ledgerVars, govVars, started, now, bal0, rateVars>>

(***************************************************************************)
(* The NFT tier of an account is kept by another service (the voting       *)
(* power provider of the specification); it can change at any time.        *)
(***************************************************************************)
Tiers == {"none", "PRO"}

\* Mutant: a change of tier that rewrites the voter's past votes.
ChangeTier_retroactive ==
  \E a \in Accounts, t \in Tiers :
     /\ tiers[a] # t
     /\ tiers' = [tiers EXCEPT ![a] = t]
     /\ votes' = {IF v.voter_address = a
                    THEN [v EXCEPT !.voting_power =
                            VOTING_POWER(IF t = "none" THEN "NOMAD" ELSE t)]
                    ELSE v : v \in votes}
     /\ UNCHANGED <<ledgerVars, proposals, gcache, calls, started, now, bal0, rateVars>>

ChangeTier ==
  \E a \in Accounts, t \in Tiers :
     /\ tiers[a] # t
     /\ tiers' = [tiers EXCEPT ![a] = t]
     /\ UNCHANGED <<ledgerVars, proposals, votes, gcache, calls, started, now, bal0,
                    rateVars>>

(***************************************************************************)
(* The clock.                                                              *)
(***************************************************************************)
Tick ==
  /\ now < MaxTime
  /\ now' = now + 1
  /\ UNCHANGED <<ledgerVars, govVars, calls, started, bal0, rateVars>>

(***************************************************************************)
(* PaionTokenService.getTransactionHistory                                 *)
(***************************************************************************)
Reverse(s) == [i \in 1..Len(s) |-> s[Len(s) + 1 - i]]

\* .eq('user_address', ...) with .eq('transaction_type', ...) when the option
\* is given, .order('created_at', { ascending: false })
matching(log, addr, type) ==
  Reverse(SelectSeq(log, LAMBDA r : /\ r.user_address = addr
                                    /\ (type = "" \/ r.type = type)))

\* .range(from, to): the rows from..to of the result, counted from 0
range(s, from, to) ==
  SubSeq(s, from + 1, IF to + 1 < Len(s) THEN to + 1 ELSE Len(s))

\* Lines 222-236: the page query
pageQuery(log, addr, opts) ==
  range(matching(log, addr, opts.transactionType),
        opts.offset, opts.offset + opts.limit - 1)

\* Lines 245-248: the count query, .eq('user_address', ...) alone
countQuery(log, addr, opts) == Len(matching(log, addr, ""))

\* Lines 254-258: the result
historyResult(transactions, count, opts) ==
  [transactions |-> transactions, totalCount |-> count,
   hasMore |-> (opts.offset + opts.limit) < count]

HKey(c) == <<calls[c].addr, calls[c].hopts>>

HCacheHit(k) == hcache[k].present /\ ~Expired(hcache[k])

\* Lines 215-220: the cache lookup; a live entry is returned as it is, an
\* expired one is deleted.
getTransactionHistory_cache(c) ==
  /\ At(c, {"history"}, "start")
  /\ hcache' = IF hcache[HKey(c)].present /\ Expired(hcache[HKey(c)])
                 THEN [hcache EXCEPT ![HKey(c)] = NoHEntry]
                 ELSE hcache
  /\ IF HCacheHit(HKey(c))
       THEN calls' = [calls EXCEPT ![c].pc = "done", ![c].res = "ok",
                                   ![c].hist = hcache[HKey(c)].data]
       ELSE Goto(c, "query")
  /\ UNCHANGED <<balances, txlog, subs, cache, scache, govVars, started, now,
                 bal0, rateVars>>

\* Lines 222-242: the page query; a store failure is thrown.
getTransactionHistory_query(c, ok) ==
  /\ At(c, {"history"}, "query")
  /\ IF ok
       THEN calls' = [calls EXCEPT
                        ![c].pc = "count",
                        ![c].hist.transactions =
                           pageQuery(txlog, calls[c].addr, calls[c].hopts)]
       ELSE Finish(c, "error")
  /\ UNCHANGED <<ledgerVars, govVars, started, now, bal0, rateVars>>

\* Lines 245-263: the count query, then the result is cached and returned.
getTransactionHistory_count(c, ok) ==
  /\ At(c, {"history"}, "count")
  /\ IF ok
       THEN LET result == historyResult(calls[c].hist.transactions,
                            countQuery(txlog, calls[c].addr, calls[c].hopts),
                            calls[c].hopts)
            IN /\ hcache' = setCachedData(hcache, HKey(c), result,
                                          CACHE_TTL_transactions)
               /\ calls' = [calls EXCEPT ![c].pc = "done", ![c].res = "ok",
                                         ![c].hist = result]
       ELSE /\ calls' = [calls EXCEPT ![c].pc = "done", ![c].res = "error",
                                      ![c].hist = NoHistory]
            /\ UNCHANGED hcache
  /\ UNCHANGED <<balances, txlog, subs, cache, scache, govVars, started, now,
                 bal0, rateVars>>

(***************************************************************************)
(* getTokenStatistics of PaionTokenService (op "stats", with its cache)    *)
(* and of PaionModel (op "modelStats").                                    *)
(***************************************************************************)
\* the rows of paion_balances, by account
allBalances == {a \in Accounts : balances[a].exists}

\* rows.reduce((sum, b) => sum + parseFloat(b.<column> || 0), 0)
RECURSIVE reduce(_, _)
reduce(rows, column) ==
  IF rows = {} THEN 0
  ELSE LET a == CHOOSE x \in rows : TRUE
       IN balances[a][column] + reduce(rows \ {a}, column)

\* rows.filter(b => parseFloat(b.balance || 0) > 0).length
holders(rows) == Cardinality({a \in rows : balances[a].balance > 0})

\* paion-token-service.js lines 287-295: the average is taken over all rows
serviceStatistics(rows) ==
  [totalSupply |-> reduce(rows, "total_earned"),
   circulatingSupply |-> reduce(rows, "balance"),
   totalHolders |-> holders(rows),
   totalSpent |-> reduce(rows, "total_spent"),
   averageBalance |-> IF Cardinality(rows) > 0
                        THEN Quotient(reduce(rows, "balance"), Cardinality(rows))
                        ELSE Zero]

\* paion-model.js lines 191-211: the average is taken over the holders
modelStatistics(rows) ==
  IF rows = {} THEN NoStats
  ELSE [totalSupply |-> reduce(rows, "total_earned"),
        circulatingSupply |-> reduce(rows, "balance"),
        totalHolders |-> holders(rows),
        totalSpent |-> reduce(rows, "total_spent"),
        averageBalance |-> IF holders(rows) > 0
                             THEN Quotient(reduce(rows, "balance"), holders(rows))
                             ELSE Zero]

\* Lines 273-275 of the service: the cache lookup
getTokenStatistics_cache(c) ==
  /\ At(c, {"stats"}, "start")
  /\ scache' = IF scache.present /\ Expired(scache) THEN NoSEntry ELSE scache
  /\ IF scache.present /\ ~Expired(scache)
       THEN calls' = [calls EXCEPT ![c].pc = "done", ![c].res = "ok",
                                   ![c].stats = scache.data]
       ELSE Goto(c, "query")
  /\ UNCHANGED <<balances, txlog, subs, cache, hcache, govVars, started, now,
                 bal0, rateVars>>

\* Lines 279-298 of the service: the query, the statistics, the cache
getTokenStatistics_query(c, ok) ==
  /\ At(c, {"stats"}, "query")
  /\ IF ok
       THEN LET stats == serviceStatistics(allBalances)
            IN /\ scache' = [present |-> TRUE, data |-> stats,
                             timestamp |-> now, ttl |-> CACHE_TTL_stats]
               /\ calls' = [calls EXCEPT ![c].pc = "done", ![c].res = "ok",
                                         ![c].stats = stats]
       ELSE /\ Finish(c, "error")
            /\ UNCHANGED scache
  /\ UNCHANGED <<balances, txlog, subs, cache, hcache, govVars, started, now,
                 bal0, rateVars>>

\* PaionModel.getTokenStatistics: getAllBalances, then the statistics
PaionModel_getTokenStatistics(c, ok) ==
  /\ At(c, {"modelStats"}, "start")
  /\ IF ok
       THEN calls' = [calls EXCEPT ![c].pc = "done", ![c].res = "ok",
                                   ![c].stats = modelStatistics(allBalances)]
       ELSE Finish(c, "error")
  /\ UNCHANGED <<ledgerVars, govVars, started, now, bal0, rateVars>>

(***************************************************************************)
(* createUserRateLimit, as the payment routes install it:                  *)
(* router.use(createUserRateLimit(15 * 60 * 1000, 20)).  Times are in      *)
(* minutes.                                                                *)
(***************************************************************************)
PaymentsWindow == 15
PaymentsMax == 20

\* the keys: req.userAddress || req.headers['x-user-address'] || req.ip
RateKeys == Accounts

NoCounter == [present |-> FALSE, count |-> 0, resetTime |-> 0]

NoResponse == [key |-> "", status |-> "", code |-> ""]

\* "Clean old entries": the loop over the Map
cleanOld(reqs, windowMs) ==
  [k \in RateKeys |->
     IF reqs[k].present /\ now - reqs[k].resetTime > windowMs
       THEN NoCounter ELSE reqs[k]]

\* "Get or create user data"
userData(reqs, key, windowMs) ==
  IF ~reqs[key].present \/ now - reqs[key].resetTime > windowMs
    THEN [present |-> TRUE, count |-> 0, resetTime |-> now]
    ELSE reqs[key]

\* The times of `times` that lie less than `span` before the time t
Lately(times, t, span) == SelectSeq(times, LAMBDA x : t - x < span)

\* The middleware on one request of `key`: 429 when the counter has reached
\* max, else the counter is incremented and the request goes on (next()).
createUserRateLimit(windowMs, max, key) ==
  LET cleaned == cleanOld(requests, windowMs)
      data == userData(cleaned, key, windowMs)
  IN IF data.count >= max
       THEN /\ requests' = [cleaned EXCEPT ![key] = data]
            /\ response' = [key |-> key, status |-> "429",
                            code |-> "RATE_LIMIT_EXCEEDED"]
            /\ UNCHANGED admitted
       ELSE /\ requests' = [cleaned EXCEPT ![key] =
                                              [data EXCEPT !.count = @ + 1]]
            /\ response' = [key |-> key, status |-> "next", code |-> ""]
            /\ admitted' = [admitted EXCEPT ![key] = Append(@, now)]

PaymentRequest ==
  /\ \E key \in RateKeys : createUserRateLimit(PaymentsWindow, PaymentsMax, key)
  /\ UNCHANGED <<ledgerVars, govVars, calls, started, now, bal0>>

\* The clock of the rate limiter advances in steps of RateStep minutes;
\* `admitted` keeps the admissions of the last PaymentsWindow minutes.
RateTick ==
  /\ now < RateHorizon
  /\ now' = now + RateStep
  /\ admitted' = [k \in RateKeys |->
                    Lately(admitted[k], now + RateStep, PaymentsWindow)]
  /\ UNCHANGED <<ledgerVars, govVars, calls, started, bal0, requests, response>>

InitRate ==
  /\ requests = [k \in RateKeys |-> NoCounter]
  /\ response = NoResponse
  /\ admitted = [k \in RateKeys |-> <<>>]

(***************************************************************************)
(* Requests: what the callers ask for.                                     *)
(***************************************************************************)
Durations == {30}
VoteOptions == {"Yes", "Maybe"}
OptionLists == {DefaultOptions}

Request(call) ==
  /\ Begin(call)
  /\ UNCHANGED <<ledgerVars, govVars, now, bal0, rateVars>>

StartBalance == \E a \in Accounts : Request(NewCall("balance", a, "", 0))

StartAdd == \E a \in Accounts, x \in Amounts : Request(NewCall("add", a, "", x))

\* `prior` remembers the credits that had returned success when the call
\* was made.
CreditsDone(a) ==
  {d \in CallIds : /\ calls[d].op = "add"
                   /\ calls[d].pc = "done"
                   /\ calls[d].res = "ok"
                   /\ calls[d].addr = a}

StartHistory ==
  \E a \in Accounts, o \in HistoryOptions :
     Request([NewCall("history", a, "", 0) EXCEPT
                !.hopts = o, !.prior = CreditsDone(a)])

StartSpend == \E a \in Accounts, x \in Amounts : Request(NewCall("spend", a, "", x))

StartTransfer ==
  \E a \in Accounts, b \in Accounts, x \in Amounts :
     Request(NewCall("transfer", a, b, x))

StartLock == \E a \in Accounts, x \in Amounts : Request(NewCall("lock", a, "", x))

StartUnlock == \E a \in Accounts, x \in Amounts : Request(NewCall("unlock", a, "", x))

StartSubscribe ==
  \E a \in Accounts, d \in Durations : Request(NewCall("subscribe", a, "", d))

\* a proposal is asked for only while the table of the model has room
Proposing == {c \in CallIds : calls[c].op = "propose" /\ calls[c].pc # "done"}

StartPropose ==
  \E a \in Accounts, o \in OptionLists :
     /\ Cardinality(Proposing) < Cardinality(FreeIds)
     /\ Request([NewCall("propose", a, "", 0) EXCEPT !.options = o])

\* the options and the duration (in days, 0: none) a proposal may ask for
RequestedOptions == {<<>>, <<"Yes", "Yes">>, <<"Yes", "No">>}
RequestedDays == {0, 3}

\* createProposal with whatever body the controller lets through: options
\* missing or any list, a duration or none.  The duration is kept in
\* `amount`.
StartProposeWith ==
  \E a \in Accounts, given \in BOOLEAN, o \in RequestedOptions, d \in RequestedDays :
     /\ Cardinality(Proposing) < Cardinality(FreeIds)
     /\ ~given => o = <<>>
     /\ Request([NewCall("propose", a, "", d) EXCEPT !.options = o,
                                                      !.optsGiven = given])

StartVote ==
  \E a \in Accounts, p \in ProposalIds, o \in VoteOptions :
     Request([NewCall("vote", a, "", 0) EXCEPT !.pid = p, !.option = o])

StartClose == Request(NewCall("close", "", "", 0))

\* GET /proposals/:id
StartGet ==
  \E p \in ProposalIds : Request([NewCall("get", "", "", 0) EXCEPT !.pid = p])

\* the amount field of a request body
RawAmounts ==
  { Undefined, Num(0), Num(-50), Num(50),
    Str(<<"x">>), Str(<<"-", "5">>), Str(<<"5", "0">>), Str(<<"5", "0", "x">>) }

\* the unlock_date field of a lock request
UnlockDates == {NoDate, BadDate, DateAt(0), DateAt(1)}

\* A request to one of the five mutating endpoints of /paion, as the body
\* parser hands it to the controller (the other required fields present).
StartRequest ==
  \E op \in Endpoints, a \in Accounts, b \in Accounts, v \in RawAmounts,
     d \in UnlockDates :
     /\ op # "transfer" => b = a
     /\ op # "lock" => d = NoDate
     /\ Request([NewCall(op, a, IF op = "transfer" THEN b ELSE "", 0)
                   EXCEPT !.pc = "request", !.raw = v, !.unlock_date = d])

(***************************************************************************)
(* The steps of the calls; F is the set of outcomes of a store call        *)
(* (TRUE: it succeeds, FALSE: the store fails).                            *)
(***************************************************************************)
BalanceSteps(F) ==
  \E c \in CallIds :
     \/ getUserBalance_cache(c)
     \/ \E ok \in F : getUserBalance_read(c, ok)
     \/ getUserBalance_fill(c)

AddSteps(F) == \E c \in CallIds, ok \in F : addTokens_rpc(c, ok)

\* A balance request; `prior` remembers the mutations of the account that
\* had returned success when the request was made.
Mutations == {"add", "spend", "transfer", "lock", "unlock"}

MutationsDone(a) ==
  {d \in CallIds : /\ calls[d].op \in Mutations
                   /\ calls[d].pc = "done"
                   /\ calls[d].res = "ok"
                   /\ a \in {calls[d].addr, calls[d].to}}

StartRead ==
  \E a \in Accounts :
     Request([NewCall("balance", a, "", 0) EXCEPT !.prior = MutationsDone(a)])

\* The client of a finished balance request asks again.
RepeatRead ==
  \E c \in CallIds :
     /\ At(c, {"balance"}, "done")
     /\ calls' = [calls EXCEPT ![c] =
                    [NewCall("balance", calls[c].addr, "", 0) EXCEPT
                       !.prior = MutationsDone(calls[c].addr)]]
     /\ UNCHANGED <<ledgerVars, govVars, started, now, bal0, rateVars>>

\* Minutes pass, up to MaxWait of them.
Wait ==
  /\ now < MaxWait
  /\ now' = now + 1
  /\ UNCHANGED <<ledgerVars, govVars, calls, started, bal0, rateVars>>

StartStatistics == \E op \in {"stats", "modelStats"} : Request(NewCall(op, "", "", 0))

StatisticsSteps(F) ==
  \E c \in CallIds :
     \/ getTokenStatistics_cache(c)
     \/ \E ok \in F : getTokenStatistics_query(c, ok)
     \/ \E ok \in F : PaionModel_getTokenStatistics(c, ok)

\* The client of a finished history call makes the same call again.
RepeatHistory ==
  \E c \in CallIds :
     /\ At(c, {"history"}, "done")
     /\ calls' = [calls EXCEPT ![c] =
                    [NewCall("history", calls[c].addr, "", 0) EXCEPT
                       !.hopts = calls[c].hopts,
                       !.prior = CreditsDone(calls[c].addr)]]
     /\ UNCHANGED <<ledgerVars, govVars, started, now, bal0, rateVars>>

HistorySteps(F) ==
  \E c \in CallIds :
     \/ getTransactionHistory_cache(c)
     \/ \E ok \in F : getTransactionHistory_query(c, ok)
     \/ \E ok \in F : getTransactionHistory_count(c, ok)

SpendSteps(F) == \E c \in CallIds, ok \in F : spendTokens_rpc(c, ok)

TransferSteps(F) == \E c \in CallIds, ok \in F : transferTokens_rpc(c, ok)

LockSteps(F) == \E c \in CallIds, ok \in F : lockTokens_rpc(c, ok)

UnlockSteps(F) == \E c \in CallIds, ok \in F : unlockTokens_rpc(c, ok)

ClearSteps == \E c \in CallIds : clearCache(c)

SubscribeSteps(F) ==
  \E c \in CallIds, ok \in F :
     \/ createSubscription_balance(c, ok)
     \/ createSubscription_insert(c, ok)
     \/ createSubscription_deduct(c, ok)
     \/ createSubscription_record(c, ok)

SubscribeRollback(F) == \E c \in CallIds, ok \in F : createSubscription_rollback(c, ok)

ProposeSteps(F) ==
  \E c \in CallIds, ok \in F : createProposal_power(c, ok) \/ createProposal_insert(c, ok)

VoteSteps(F) ==
  \E c \in CallIds :
     \/ getProposal_cache(c)
     \/ \E ok \in F : getProposal_read(c, ok)
     \/ getProposal_fill(c)
     \/ \E ok \in F : castVote_existing(c, ok)
     \/ \E ok \in F : castVote_power(c, ok)
     \/ \E ok \in F : castVote_insert(c, ok)
     \/ castVote_clear(c)

GetSteps(F) ==
  \E c \in CallIds :
     \/ getProposal_cache(c)
     \/ \E ok \in F : getProposal_read(c, ok)
     \/ getProposal_fill(c)

CloseSteps(F) ==
  \E c \in CallIds :
     \/ \E ok \in F : closeExpiredProposals_update(c, ok)
     \/ closeExpiredProposals_clear(c)

(***************************************************************************)
(* Initial states: the services just constructed (empty caches, no call)   *)
(* over a store that holds rows already.                                   *)
(***************************************************************************)
InitRows == {NoRow, Row(100, 50, 350, 200)}

Statuses == {"pending", "active", "completed", "cancelled"}

InitProposals ==
  {NoProposal} \cup
  {Proposal("a1", st, 0, e, DefaultOptions) : st \in Statuses, e \in {1}}

InitCommon ==
  /\ txlog = <<>>
  /\ subs = {}
  /\ cache = [a \in Accounts |-> NoEntry]
  /\ hcache = [k \in HistoryKeys |-> NoHEntry]
  /\ scache = NoSEntry
  /\ InitRate
  /\ votes = {}
  /\ tiers = [a \in Accounts |-> IF a = "a1" THEN "PRO" ELSE "none"]
  /\ gcache = [i \in ProposalIds |-> NoGEntry]
  /\ calls = [c \in CallIds |-> IdleCall]
  /\ started = 0
  /\ now = 0

InitLedger ==
  /\ InitCommon
  /\ balances \in [Accounts -> InitRows]
  /\ bal0 = balances
  /\ proposals = [i \in ProposalIds |-> NoProposal]

InitGov ==
  /\ InitCommon
  /\ balances = [a \in Accounts |-> NoRow]
  /\ bal0 = balances
  /\ \E p \in InitProposals :
        proposals = [i \in ProposalIds |-> IF i = 1 THEN p ELSE NoProposal]

Ok == {TRUE}
OkOrFail == BOOLEAN

\* debits against the cached balance check
NextSpend ==
  \/ StartBalance \/ StartAdd \/ StartSpend
  \/ BalanceSteps(Ok) \/ AddSteps(Ok) \/ SpendSteps(Ok) \/ ClearSteps

SpecSpend == InitLedger /\ [][NextSpend]_vars

\* transfers, with store failures
NextTransfer ==
  \/ StartTransfer
  \/ BalanceSteps(OkOrFail) \/ TransferSteps(OkOrFail) \/ ClearSteps

SpecTransfer == InitLedger /\ [][NextTransfer]_vars

\* every balance-affecting operation
NextLedger ==
  \/ StartAdd \/ StartSpend \/ StartTransfer \/ StartLock \/ StartUnlock
  \/ StartSubscribe
  \/ BalanceSteps(Ok) \/ AddSteps(Ok) \/ SpendSteps(Ok) \/ TransferSteps(Ok)
  \/ LockSteps(Ok) \/ UnlockSteps(Ok) \/ SubscribeSteps(Ok) \/ ClearSteps

SpecLedger == InitLedger /\ [][NextLedger]_vars

\* governance
NextGov ==
  \/ StartPropose \/ StartVote \/ StartClose \/ Tick
  \/ ProposeSteps(Ok) \/ VoteSteps(Ok) \/ CloseSteps(Ok)

SpecGov == InitGov /\ [][NextGov]_vars

\* the mutating endpoints behind the controller's validation
NextValidate ==
  \/ StartRequest
  \/ \E c \in CallIds : validateRequest(c)
  \/ BalanceSteps(Ok) \/ AddSteps(Ok) \/ SpendSteps(Ok) \/ TransferSteps(Ok)
  \/ LockSteps(Ok) \/ UnlockSteps(Ok) \/ ClearSteps

InitValidate ==
  /\ InitCommon
  /\ balances = [a \in Accounts |-> Row(100, 50, 350, 200)]
  /\ bal0 = balances
  /\ proposals = [i \in ProposalIds |-> NoProposal]

SpecValidate == InitValidate /\ [][NextValidate]_vars

\* proposals while the tiers change, with store failures
NextTier == StartPropose \/ ChangeTier \/ ProposeSteps(OkOrFail)

SpecTier == InitGov /\ [][NextTier]_vars

\* proposals with any options and duration, over time
NextPropose == StartProposeWith \/ Tick \/ ProposeSteps(Ok)

SpecPropose == InitGov /\ [][NextPropose]_vars

\* credits and affiliate purchases, with store failures
NextSubscribe ==
  \/ StartAdd \/ StartSubscribe
  \/ AddSteps(OkOrFail) \/ SubscribeSteps(OkOrFail) \/ SubscribeRollback(OkOrFail)
  \/ ClearSteps

SpecSubscribe == InitLedger /\ [][NextSubscribe]_vars

\* affiliate purchases side by side, the store never failing
NextPurchase == StartSubscribe \/ SubscribeSteps(Ok)

SpecPurchase == InitLedger /\ [][NextPurchase]_vars

\* locks and unlocks, with store failures
NextLock ==
  \/ StartLock \/ StartUnlock
  \/ LockSteps(OkOrFail) \/ UnlockSteps(OkOrFail) \/ ClearSteps

SpecLock == InitLedger /\ [][NextLock]_vars

\* votes, with store failures
NextVoteFail == StartVote \/ VoteSteps(OkOrFail)

SpecVoteFail == InitGov /\ [][NextVoteFail]_vars

\* votes while the tiers change
NextVote == StartVote \/ ChangeTier \/ VoteSteps(Ok)

SpecVote == InitGov /\ [][NextVote]_vars

\* The tally: a proposal with votes already cast.  The option lists are
\* those createProposal stores, the votes those castVote inserts (an option
\* of the proposal, the voting power of a tier).
MaxVotes == 3

TallyOptions == {<<"Yes", "No">>, <<"Yes", "Yes">>, <<"Yes", "No", "Abstain">>}

VoteRows(options) ==
  { [id |-> 0, proposal_id |-> 1, voter_address |-> a, option |-> o,
     voting_power |-> VOTING_POWER(t), created_at |-> 0] :
       a \in Accounts, o \in Range(options), t \in {"NOMAD", "PRO"} }

InitTally ==
  /\ txlog = <<>>
  /\ subs = {}
  /\ cache = [a \in Accounts |-> NoEntry]
  /\ hcache = [k \in HistoryKeys |-> NoHEntry]
  /\ scache = NoSEntry
  /\ InitRate
  /\ tiers = [a \in Accounts |-> IF a = "a1" THEN "PRO" ELSE "none"]
  /\ gcache = [i \in ProposalIds |-> NoGEntry]
  /\ calls = [c \in CallIds |-> IdleCall]
  /\ started = 0
  /\ now = 0
  /\ balances = [a \in Accounts |-> NoRow]
  /\ bal0 = balances
  /\ \E o \in TallyOptions :
        /\ proposals = [i \in ProposalIds |->
                          IF i = 1 THEN Proposal("a1", "active", 0, 1, o)
                                   ELSE NoProposal]
        /\ votes \in {vs \in SUBSET VoteRows(o) : Cardinality(vs) <= MaxVotes}

NextTally == StartGet \/ GetSteps(Ok)

SpecTally == InitTally /\ [][NextTally]_vars

\* Transaction histories of accounts that have records: the initial log is
\* any sequence of at most MaxLog credits and debits of 50, the balance rows
\* are the ones such a log leaves behind.
LogRecords == {Tx(a, t, 50, 0) : a \in Accounts, t \in {"earned", "spent"}}

Logs == UNION {[1..n -> LogRecords] : n \in 0..MaxLog}

RowAfter(log, a) ==
  LET e == 50 * Len(matching(log, a, "earned"))
      d == 50 * (Len(matching(log, a, "")) - Len(matching(log, a, "earned")))
  IN Row(100 + e, 50, 350 + e, 200 + d)

InitHistory ==
  /\ txlog \in Logs
  /\ balances = [a \in Accounts |-> RowAfter(txlog, a)]
  /\ bal0 = balances
  /\ subs = {}
  /\ cache = [a \in Accounts |-> NoEntry]
  /\ hcache = [k \in HistoryKeys |-> NoHEntry]
  /\ scache = NoSEntry
  /\ InitRate
  /\ votes = {}
  /\ tiers = [a \in Accounts |-> "none"]
  /\ gcache = [i \in ProposalIds |-> NoGEntry]
  /\ proposals = [i \in ProposalIds |-> NoProposal]
  /\ calls = [c \in CallIds |-> IdleCall]
  /\ started = 0
  /\ now = 0

NextHistory == StartHistory \/ HistorySteps(OkOrFail)

SpecHistory == InitHistory /\ [][NextHistory]_vars

\* balance requests beside credits and locks
NextReadRace ==
  \/ StartRead \/ RepeatRead \/ StartAdd \/ StartLock
  \/ BalanceSteps(Ok) \/ AddSteps(Ok) \/ LockSteps(Ok) \/ ClearSteps

SpecReadRace == InitLedger /\ [][NextReadRace]_vars

\* balance requests over time, with store failures
NextExpiry == StartRead \/ RepeatRead \/ Wait \/ BalanceSteps(OkOrFail)

SpecExpiry == InitLedger /\ [][NextExpiry]_vars

\* Requests on the payment routes over time
NextRate == PaymentRequest \/ RateTick

SpecRate == InitValidate /\ [][NextRate]_vars

\* Statistics over any table of balance rows, rows without holdings included
StatRows == {NoRow, Row(0, 0, 50, 50), Row(50, 0, 50, 0), Row(100, 50, 350, 200)}

InitStatistics ==
  /\ InitCommon
  /\ balances \in [Accounts -> StatRows]
  /\ bal0 = balances
  /\ proposals = [i \in ProposalIds |-> NoProposal]

NextStatistics == StartStatistics \/ StatisticsSteps(OkOrFail)

SpecStatistics == InitStatistics /\ [][NextStatistics]_vars

\* Credits and history calls; a client may ask for its history again.
InitHistoryCache ==
  /\ InitCommon
  /\ balances = [a \in Accounts |-> Row(100, 50, 350, 200)]
  /\ bal0 = balances
  /\ proposals = [i \in ProposalIds |-> NoProposal]

NextHistoryCache ==
  \/ StartHistory \/ RepeatHistory \/ StartAdd
  \/ HistorySteps(Ok) \/ AddSteps(Ok) \/ ClearSteps

SpecHistoryCache == InitHistoryCache /\ [][NextHistoryCache]_vars

(***************************************************************************)
(* Helpers of the properties.                                              *)
(***************************************************************************)
RECURSIVE SumAmounts(_)
SumAmounts(S) ==
  IF S = {} THEN 0
  ELSE LET c == CHOOSE x \in S : TRUE
       IN calls[c].amount + SumAmounts(S \ {c})

RECURSIVE TotalBalance(_, _)
TotalBalance(tbl, S) ==
  IF S = {} THEN 0
  ELSE LET a == CHOOSE x \in S : TRUE
       IN tbl[a].balance + TotalBalance(tbl, S \ {a})

InLog(t) == \E i \in 1..Len(txlog) : txlog[i] = t

Quiescent == \A c \in CallIds : calls[c].pc \in {"idle", "done"}

Succeeded(c) == calls[c].pc = "clear" \/ (calls[c].pc = "done" /\ calls[c].res = "ok")

(***************************************************************************)
(* C1.  No double-spend: when two or more spendTokens calls, each asking   *)
(* for the whole balance B > 0 of one account, have run (in whatever       *)
(* interleaving) and nothing else touched the account, exactly one of      *)
(* them succeeded and the others failed for insufficient balance.          *)
(***************************************************************************)
FullSpends(a) ==
  {c \in CallIds : calls[c].op = "spend" /\ calls[c].addr = a
                   /\ calls[c].amount = bal0[a].balance}

C1_NoDoubleSpend ==
  \A a \in Accounts :
     ( /\ bal0[a].balance > 0
       /\ Cardinality(FullSpends(a)) >= 2
       /\ FullSpends(a) = {c \in CallIds : calls[c].op # "none"}
       /\ Quiescent )
     => /\ Cardinality({c \in FullSpends(a) : calls[c].res = "ok"}) = 1
        /\ \A c \in FullSpends(a) : calls[c].res \in {"ok", "insufficient"}

(***************************************************************************)
(* C2.  transferTokens is all-or-nothing: in every reachable state, also   *)
(* after a store failure and while calls are in flight, each account's     *)
(* balance is its initial balance less the amounts of the transfers it     *)
(* sent plus the amounts of those it received, counting exactly the        *)
(* transfers whose procedure call succeeded; and a transfer_out record is  *)
(* in the log exactly when its transfer_in record is.                      *)
(***************************************************************************)
Sent(a) == {c \in CallIds : calls[c].op = "transfer" /\ calls[c].addr = a /\ Succeeded(c)}
Received(a) == {c \in CallIds : calls[c].op = "transfer" /\ calls[c].to = a /\ Succeeded(c)}

TransferApplied(c) ==
  calls[c].op = "transfer" /\ calls[c].pc = "rpc" /\ calls'[c].pc = "clear"

C4_NonNegative ==
  Quiescent =>
    \A a \in Accounts : balances[a].balance >= 0 /\ balances[a].locked_amount >= 0

(***************************************************************************)
(* C5.  For every proposal and voter there is at most one vote record.     *)
(***************************************************************************)
C5_OneVotePerVoter ==
  \A p \in ProposalIds, a \in Accounts : Cardinality(VotesOf(p, a)) <= 1

(***************************************************************************)
(* C6.  A vote is inserted only while the stored status of its proposal    *)
(* is active and the time is strictly before the proposal's end_date.      *)
(***************************************************************************)
C6_VoteOnlyWhileActive ==
  [][ \A v \in votes' \ votes :
        /\ proposals[v.proposal_id].status = "active"
        /\ now < proposals[v.proposal_id].end_date ]_vars

(***************************************************************************)
(* C7.  When spendTokens or transferTokens makes its sufficiency check on  *)
(* a balance taken from the cache, that balance is the one in the store.   *)
(***************************************************************************)
CheckOnCache(c) ==
  /\ calls[c].op \in {"spend", "transfer"}
  /\ calls[c].pc = "start"
  /\ calls'[c].pc \in {"rpc", "done"}

C7_CheckOnStoredBalance ==
  [][ \A c \in CallIds :
        CheckOnCache(c) =>
          calls'[c].snap.balance = balances[calls[c].addr].balance ]_vars

(***************************************************************************)
(* C8.  closeExpiredProposals is idempotent and leaves cancelled           *)
(* proposals alone: the step that runs its update changes no proposal      *)
(* that is not active, leaves no active proposal behind that a call at     *)
(* the same time would close, and, when another call already ran its       *)
(* update at the same time, returns the empty list and changes nothing.    *)
(***************************************************************************)
CloseUpdated(c) ==
  calls[c].op = "close" /\ calls[c].pc = "start" /\ calls'[c].pc = "clear"

ClosedAt(t) ==
  {d \in CallIds : calls[d].op = "close" /\ calls[d].pc \in {"clear", "done"}
                   /\ calls[d].res # "error" /\ calls[d].at = t}

C8_CloseIdempotent ==
  [][ \A c \in CallIds :
        CloseUpdated(c) =>
          /\ \A i \in ProposalIds :
                proposals[i].status # "active" => proposals'[i] = proposals[i]
          /\ \A i \in ProposalIds :
                ~(proposals'[i].exists /\ proposals'[i].status = "active"
                  /\ proposals'[i].end_date < now)
          /\ ClosedAt(now) # {} =>
                calls'[c].ret = {} /\ proposals' = proposals ]_vars

\* two calls ran at the same time, and the first of them closed a proposal
C8_Witness ==
  \E c, d \in CallIds :
     /\ c # d
     /\ c \in ClosedAt(calls[d].at) /\ d \in ClosedAt(calls[c].at)
     /\ calls[c].ret # {} /\ calls[d].ret = {}

(***************************************************************************)
(* C9.  Proposal status only moves forward: no step changes a completed    *)
(* or cancelled proposal in any field, and none takes a proposal from      *)
(* active back to pending.                                                 *)
(***************************************************************************)
C9_TerminalStatus ==
  [][ \A i \in ProposalIds :
        /\ proposals[i].status \in {"completed", "cancelled"} =>
             proposals'[i] = proposals[i]
        /\ proposals[i].status = "active" => proposals'[i].status # "pending" ]_vars

\* a sweep and a vote ran over an expired proposal that was cancelled
C9_Witness ==
  \E c, d \in CallIds, i \in ProposalIds :
     /\ proposals[i].status = "cancelled" /\ proposals[i].end_date < now
     /\ calls[c].op = "close" /\ calls[c].pc = "done" /\ calls[c].at > proposals[i].end_date
     /\ calls[d].op = "vote" /\ calls[d].pid = i /\ calls[d].pc = "done"

(***************************************************************************)
(* C10.  total_earned and total_spent of an account never decrease.        *)
(***************************************************************************)
C10_CountersMonotonic ==
  [][ \A a \in Accounts :
        /\ balances'[a].total_earned >= balances[a].total_earned
        /\ balances'[a].total_spent >= balances[a].total_spent ]_vars

(***************************************************************************)
(* C11.  A transfer whose recipient is its sender is rejected as an        *)
(* invalid recipient before any store access: such a call never gets to    *)
(* a store query or to the procedure call, when it has returned it has     *)
(* returned the invalid-recipient failure, and no transaction record       *)
(* carries its reference.                                                  *)
(***************************************************************************)
SelfTransfer(c) == calls[c].op = "transfer" /\ calls[c].addr = calls[c].to

C11_SelfTransferRejected ==
  \A c \in CallIds :
     SelfTransfer(c) =>
       /\ calls[c].pc \in {"start", "done"}
       /\ calls[c].pc = "done" => calls[c].res = "invalid_recipient"
       /\ \A i \in 1..Len(txlog) : txlog[i].ref # c

(***************************************************************************)
(* C12.  When spendTokens or transferTokens makes its sufficiency check    *)
(* while the account's stored balance is below the requested amount, the   *)
(* call returns the insufficient-balance failure there and then: it does   *)
(* not go on to the procedure call, and the step changes no balance row    *)
(* and adds no transaction record.                                        *)
(***************************************************************************)
Decides(c) ==
  /\ calls[c].op \in {"spend", "transfer"}
  /\ calls[c].pc \in {"start", "fill"}
  /\ calls'[c].pc \in {"rpc", "done"}

C12_InsufficientRejected ==
  [][ \A c \in CallIds :
        (Decides(c) /\ balances[calls[c].addr].balance < calls[c].amount) =>
          /\ calls'[c].pc = "done" /\ calls'[c].res = "insufficient"
          /\ balances' = balances /\ txlog' = txlog ]_vars

(***************************************************************************)
(* C13.  Validation errors come before any mutation: a request to the      *)
(* add, spend, transfer, lock or unlock endpoint whose amount is missing,  *)
(* is not a number (a string that is not a numeral from end to end), or    *)
(* is <= 0, or a lock request whose unlock_date is missing, invalid or     *)
(* not after now, never enters the service: it is answered with a          *)
(* validation error and no transaction record carries its reference.       *)
(***************************************************************************)
\* the whole of the string is a numeral: an optional sign, then digits only
Numeral(str) ==
  LET body == IF str # <<>> /\ Head(str) = "-" THEN Tail(str) ELSE str
  IN body # <<>> /\ DigitPrefix(body) = body

NumericAmount(v) == v.kind = "number" \/ (v.kind = "string" /\ Numeral(v.str))

BadAmount(v) ==
  \/ v.kind \in {"undefined", "null"}
  \/ ~NumericAmount(v)
  \/ parseFloat(v).val <= 0

BadRequest(c) ==
  /\ calls[c].op \in Endpoints
  /\ calls[c].pc # "idle"
  /\ \/ BadAmount(calls[c].raw)
     \/ calls[c].op = "lock" /\ (calls[c].unlock_date.kind # "date"
                                  \/ calls[c].unlock_date.t <= now)

ValidationErrors == {"missing_fields", "invalid_amount", "invalid_unlock_date"}

C13_ValidationFirst ==
  \A c \in CallIds :
     BadRequest(c) =>
       /\ calls[c].pc \in {"request", "done"}
       /\ calls[c].pc = "done" => calls[c].res \in ValidationErrors
       /\ \A i \in 1..Len(txlog) : txlog[i].ref # c

(***************************************************************************)
(* C14.  No proposal of a creator below the proposal threshold is stored:  *)
(* a createProposal that looks the creator's voting power up while the     *)
(* creator's tier gives less than MIN_VOTING_POWER fails there with the    *)
(* insufficient-voting-power error and writes nothing, and every proposal  *)
(* that gets stored is stored by a call that found its creator's power at  *)
(* or above the threshold.                                                 *)
(***************************************************************************)
TierPower(a) == getUserVotingPower(a, TRUE)

PowerChecked(c) ==
  calls[c].op = "propose" /\ calls[c].pc = "start" /\ calls'[c].pc # "start"

C14_ProposalThreshold ==
  [][ /\ \A c \in CallIds :
           (PowerChecked(c) /\ TierPower(calls[c].addr) < MIN_VOTING_POWER) =>
             /\ calls'[c].pc = "done" /\ calls'[c].res = "power"
             /\ proposals' = proposals
      /\ \A i \in ProposalIds :
           (~proposals[i].exists /\ proposals'[i].exists) =>
             \E c \in CallIds :
                /\ calls[c].op = "propose" /\ calls[c].pc = "insert"
                /\ calls'[c].pid = i
                /\ proposals'[i].creator_address = calls[c].addr
                /\ calls[c].power >= MIN_VOTING_POWER ]_vars

\* one creator was turned away for its voting power, another's proposal stored
C14_Witness ==
  \E c, d \in CallIds, i \in ProposalIds :
     /\ calls[c].op = "propose" /\ calls[c].res = "power"
     /\ calls[d].op = "propose" /\ calls[d].res = "ok" /\ calls[d].pid = i
     /\ proposals[i].exists /\ proposals[i].creator_address = calls[d].addr

(***************************************************************************)
(* C15.  Every stored proposal has a non-empty list of options without     *)
(* duplicates, and a createProposal whose options are empty or hold a      *)
(* duplicate has stored nothing and, once returned, has returned the       *)
(* invalid-options error (or was turned away for its creator's voting      *)
(* power before).                                                          *)
(***************************************************************************)
ValidOptions(o) ==
  /\ o # <<>>
  /\ \A i, j \in 1..Len(o) : o[i] = o[j] => i = j

C15_ValidOptions ==
  /\ \A i \in ProposalIds : proposals[i].exists => ValidOptions(proposals[i].options)
  /\ \A c \in CallIds :
        ( /\ calls[c].op = "propose" /\ calls[c].pc = "done"
          /\ calls[c].optsGiven /\ ~ValidOptions(calls[c].options) )
        => calls[c].res \in {"invalid_options", "power"}

(***************************************************************************)
(* C16.  The step that stores a proposal stores it with status active,     *)
(* start_date = now and end_date = start_date + the requested duration     *)
(* in days (7 days when none is requested), so end_date > start_date.      *)
(***************************************************************************)
DAY == 1440

RequestedDuration(c) == IF calls[c].amount = 0 THEN 7 * DAY ELSE calls[c].amount * DAY

C16_ProposalDates ==
  [][ \A c \in CallIds :
        (calls[c].op = "propose" /\ calls[c].pc = "insert" /\ calls'[c].res = "ok") =>
          LET p == proposals'[calls'[c].pid]
          IN /\ p.exists /\ p.status = "active"
             /\ p.start_date = now
             /\ p.end_date = p.start_date + RequestedDuration(c)
             /\ p.end_date > p.start_date ]_vars

(***************************************************************************)
(* C17.  The tally getProposal returns has an entry for every option of    *)
(* the proposal and for nothing else; the entry of an option gives the     *)
(* number of the proposal's votes for that option and the sum of their     *)
(* voting power (0 and 0 when there is none); total_votes and              *)
(* total_voting_power are the sums of the entries' counts and powers.      *)
(***************************************************************************)
VotesFor(pid, o) == {v \in votes : v.proposal_id = pid /\ v.option = o}

RECURSIVE PowerOf(_)
PowerOf(vs) ==
  IF vs = {} THEN 0
  ELSE LET v == CHOOSE x \in vs : TRUE IN v.voting_power + PowerOf(vs \ {v})

RECURSIVE SumCounts(_, _)
SumCounts(stats, keys) ==
  IF keys = {} THEN 0
  ELSE LET k == CHOOSE x \in keys : TRUE
       IN stats[k].count + SumCounts(stats, keys \ {k})

RECURSIVE SumPowers(_, _)
SumPowers(stats, keys) ==
  IF keys = {} THEN 0
  ELSE LET k == CHOOSE x \in keys : TRUE
       IN stats[k].voting_power + SumPowers(stats, keys \ {k})

Returned(c) == calls[c].op = "get" /\ calls[c].pc = "done" /\ calls[c].res = "ok"

C17_Tally ==
  \A c \in CallIds :
     Returned(c) =>
       LET data == calls[c].psnap
           stats == data.vote_statistics
           opts == Range(proposals[calls[c].pid].options)
       IN /\ DOMAIN stats = opts
          /\ \A o \in opts :
                /\ stats[o].count = Cardinality(VotesFor(calls[c].pid, o))
                /\ stats[o].voting_power = PowerOf(VotesFor(calls[c].pid, o))
          /\ data.total_votes = SumCounts(stats, opts)
          /\ data.total_voting_power = SumPowers(stats, opts)

\* a tally was returned for a proposal with an option that has two votes of
\* different power and an option that has none
C17_Witness ==
  \E c \in CallIds, o, n \in Range(proposals[1].options) :
     /\ Returned(c) /\ calls[c].pid = 1
     /\ \E v, w \in VotesFor(1, o) : v.voting_power # w.voting_power
     /\ VotesFor(1, n) = {}
     /\ calls[c].psnap.vote_statistics[n].count = 0

LockThenUnlock(c, d) ==
  /\ calls[c].op = "lock" /\ Succeeded(c)
  /\ calls[d].op = "unlock" /\ Succeeded(d)
  /\ calls[d].addr = calls[c].addr /\ calls[d].amount = calls[c].amount
  /\ calls[c].amount <= bal0[calls[c].addr].balance
  /\ {e \in CallIds : calls[e].op # "none"} = {c, d}
  /\ \E i, j \in 1..Len(txlog) : i < j /\ txlog[i].ref = c /\ txlog[j].ref = d

Signed(t) ==
  IF t.type \in {"earned", "transfer_in", "unlocked"} THEN t.amount ELSE -t.amount

RECURSIVE NetOfLog(_, _)
NetOfLog(a, n) ==
  IF n = 0 THEN 0
  ELSE NetOfLog(a, n - 1) + (IF txlog[n].user_address = a THEN Signed(txlog[n]) ELSE 0)

RecordsOf(c, a) == {i \in 1..Len(txlog) : txlog[i].ref = c /\ txlog[i].user_address = a}

C20_RecordWithMutation ==
  Quiescent =>
    /\ \A a \in Accounts :
          balances[a].balance - bal0[a].balance = NetOfLog(a, Len(txlog))
    /\ \A c \in CallIds :
          (calls[c].op \in {"add", "subscribe"} /\ calls[c].res = "ok")
            => Cardinality(RecordsOf(c, calls[c].addr)) = 1

(***************************************************************************)
(* C21.  castVote does not swallow store failures: a call one of whose     *)
(* store queries (the existing-vote query, the tier lookup) failed         *)
(* records no vote and, once returned, has failed; in particular no vote   *)
(* is stored with the default power 1 for a voter whose tier gives more.   *)
(***************************************************************************)
C21_NoSwallowedFailure ==
  /\ \A v \in votes : ~calls[v.id].failed
  /\ \A c \in CallIds :
        (calls[c].op = "vote" /\ calls[c].failed /\ calls[c].pc = "done")
          => calls[c].res = "error"
  /\ \A v \in votes : v.voting_power = 1 => TierPower(v.voter_address) = 1

\* C22: getTransactionHistory returns the page offset..offset+limit-1 of the
\* account's records matching the filter, newest first; totalCount is the
\* number of the records matching the filter, and hasMore is true exactly
\* when a matching record exists beyond the returned page.
C22_HistoryPage ==
  \A c \in CallIds :
     (calls[c].op = "history" /\ calls[c].pc = "done" /\ calls[c].res = "ok") =>
        LET o == calls[c].hopts
            m == matching(txlog, calls[c].addr, o.transactionType)
        IN /\ calls[c].hist.transactions = pageQuery(txlog, calls[c].addr, o)
           /\ calls[c].hist.totalCount = Len(m)
           /\ calls[c].hist.hasMore <=> (o.offset + o.limit < Len(m))

\* C26: a history call made after a credit to the account has returned
\* success, asking for the first page, returns the earned record of that
\* credit whenever the record is among the newest `limit` matching records.
C26_HistoryAfterCredit ==
  \A c \in CallIds :
     (/\ calls[c].op = "history" /\ calls[c].pc = "done"
      /\ calls[c].res = "ok" /\ calls[c].hopts.offset = 0) =>
        \A d \in calls[c].prior :
           LET r == Tx(calls[d].addr, "earned", calls[d].amount, d)
           IN InSeq(r, pageQuery(txlog, calls[c].addr, calls[c].hopts))
                => InSeq(r, calls[c].hist.transactions)

\* C23: the statistics returned by either getTokenStatistics are
\* totalSupply = the sum of total_earned, circulatingSupply = the sum of
\* balance, totalHolders = the number of rows with balance > 0, and
\* averageBalance = circulatingSupply / totalHolders, 0 without holders;
\* so both functions return the same values for every table.
C23_Statistics ==
  \A c \in CallIds :
     (calls[c].op \in {"stats", "modelStats"} /\ calls[c].pc = "done"
        /\ calls[c].res = "ok") =>
        LET st == calls[c].stats
        IN /\ st.totalSupply = reduce(allBalances, "total_earned")
           /\ st.circulatingSupply = reduce(allBalances, "balance")
           /\ st.totalHolders = holders(allBalances)
           /\ SameNumber(st.averageBalance,
                         IF st.totalHolders > 0
                           THEN Quotient(st.circulatingSupply, st.totalHolders)
                           ELSE Zero)

\* C24: of one rate-limit key, at most PaymentsMax (20) requests are
\* admitted to the handlers of the payment routes within any span of
\* PaymentsWindow (15) minutes.
C24_RateLimit ==
  \A k \in RateKeys : Len(admitted[k]) <= PaymentsMax

\* C25: when closeExpiredProposals has made its update at time t, no
\* proposal with status active has end_date <= t, and the list it returns
\* is the set of the proposals the update moved from active to completed.
C25_SweepClosesEnded ==
  [][ \A c \in CallIds :
        CloseUpdated(c) =>
          /\ \A i \in ProposalIds :
                ~(/\ proposals'[i].exists
                  /\ proposals'[i].status = "active"
                  /\ proposals'[i].end_date <= now)
          /\ calls'[c].ret =
                {i \in ProposalIds : /\ proposals[i].status = "active"
                                     /\ proposals'[i].status = "completed"} ]_vars

\* C27: a balance request made after the mutations of its account had
\* returned success, and answered while no other mutation of the account
\* has run, returns the balance that is in the store -- also when another
\* balance request was in flight during the mutation.
ReadReturns(c) ==
  calls[c].op = "balance" /\ calls[c].pc # "done" /\ calls'[c].pc = "done"
    /\ calls'[c].res = "ok"

OnlyPriorMutations(c) ==
  /\ calls[c].prior # {}
  /\ \A d \in CallIds :
        (calls[d].op \in Mutations /\ calls[c].addr \in {calls[d].addr, calls[d].to})
           => d \in calls[c].prior

C27_ReadAfterWrite ==
  [][ \A c \in CallIds :
        (ReadReturns(c) /\ OnlyPriorMutations(c)) =>
           calls'[c].snap = Snapshot(balances[calls[c].addr]) ]_vars

\* C28: a balance request that finds a cache entry written more than
\* CACHE_TTL.balance minutes ago is not answered from the cache: it goes on
\* to read the store, whatever the entry holds.
C28_BalanceEntryExpires ==
  [][ \A c \in CallIds :
        (/\ At(c, {"balance"}, "start")
         /\ calls'[c].pc # "start"
         /\ cache[calls[c].addr].present
         /\ now - cache[calls[c].addr].timestamp > CACHE_TTL_balance)
           => calls'[c].pc = "read" ]_vars

\* C29: when the createSubscription calls have ended, the balance of every
\* user has gone down by the sum of price_paid of the user's stored
\* subscription records.
RECURSIVE PricePaid(_)
PricePaid(S) ==
  IF S = {} THEN 0
  ELSE LET x == CHOOSE y \in S : TRUE
       IN x.price_paid + PricePaid(S \ {x})

C29_PaidSubscriptions ==
  Quiescent =>
    \A a \in Accounts :
       bal0[a].balance - balances[a].balance =
          PricePaid({x \in subs : x.user_address = a})

\* C30: a createSubscription call whose balance deduction failed ends by
\* throwing, with the subscription record it inserted deleted again, and
\* neither the failed deduction nor the rollback changes a balance row.
C30_DeductFailureRolledBack ==
  [][ \A c \in CallIds :
        /\ (At(c, {"subscribe"}, "deduct") /\ calls'[c].pc = "rollback")
              => balances' = balances
        /\ (At(c, {"subscribe"}, "rollback") /\ calls'[c].pc = "done")
              => /\ calls'[c].res = "error"
                 /\ \A x \in subs' : x.id # c
                 /\ balances' = balances ]_vars
====
